---- MODULE Spec2Model ----
(***************************************************************************)
(* A model of the To-Do HTTP service: src/unnamed/part_000 (db.js, the     *)
(* connection manager) and src/server.js (the request handler).            *)
(*                                                                         *)
(* One action per callback the runtime can run: the completion of the      *)
(* startup connectDB(), the 'request' callback up to its first await, the  *)
(* 'end' event of a request's body stream up to the next await, and the    *)
(* return of a database call up to the end of the handler.                 *)
(***************************************************************************)
EXTENDS Integers, Sequences, FiniteSets, TLC

VARIABLES
    proc,    \* the process: "connecting" | "listening" | "crashed"
    client,  \* db.js: const client, "new" | "connected" | "failed"
    strict,  \* the runtime's unhandled-rejection mode: TRUE = throw, FALSE = warn
    db,      \* db.js: let db
    todos,   \* the contents of db.collection("todos"): ObjectId -> document
    nextId,  \* the next ObjectId the driver generates
    clock,   \* the wall clock read by new Date()
    reqs,    \* the in-flight requests, one per connection slot
    res      \* what the handler last wrote: a response, or an unhandled rejection

vars == <<proc, client, strict, db, todos, nextId, clock, reqs, res>>

----------------------------------------------------------------------------
(* Bounds *)

MaxInFlight == 2
MaxIds == 2
MaxClock == 2

Slots == 1 .. MaxInFlight
ObjectIds == 1 .. MaxIds

----------------------------------------------------------------------------
(* Values *)

Unset == "undefined"
Handle == "todo_api"

NoParam == "<null>"
Unread == "<unread>"
HexTable == <<"0a", "0b", "0c", "0d", "0e", "0f">>
BadHex == "zz"
IdParams == {NoParam, "", BadHex} \cup {HexTable[n] : n \in ObjectIds}

Untitled == "Untitled"

RunningMsg == "Node.js To-Do API running..."
DeletedMsg == "Todo deleted"
NotFoundMsg == "Route not found"
MissingIdMsg == "Missing ID"
SyntaxMsg == "SyntaxError: JSON.parse"
TypeMsg == "TypeError: Cannot read properties of null"
BsonMsg == "BSONError: input must be a 24 character hex string"
DbMsg == "MongoError: operation rejected"

\* The (method, pathname) pairs the model sends: the five routes and two others.
Targets == {<<"GET", "/">>, <<"GET", "/todos">>, <<"POST", "/todos">>,
            <<"PUT", "/todos">>, <<"DELETE", "/todos">>,
            <<"PATCH", "/todos">>, <<"GET", "/unknown">>}

----------------------------------------------------------------------------
(* JSON.parse(body || "{}"), on the request bodies the model sends *)

PostTexts == {"", "{", "null", "{}", "{title:''}", "{title:'a'}"}
PutTexts == {"", "{", "null", "{completed:true}", "{title:'a',completed:false}",
             "{createdAt:0}"}

Obj(keys, t, c, a) ==
    [null |-> FALSE, keys |-> keys, title |-> t, completed |-> c, createdAt |-> a]

JsNull == [null |-> TRUE, keys |-> {}, title |-> "", completed |-> FALSE, createdAt |-> 0]

ValidJson(text) == text # "{"

JsonParse(text) ==
    CASE text = "" -> Obj({}, "", FALSE, 0)
      [] text = "{}" -> Obj({}, "", FALSE, 0)
      [] text = "null" -> JsNull
      [] text = "{title:''}" -> Obj({"title"}, "", FALSE, 0)
      [] text = "{title:'a'}" -> Obj({"title"}, "a", FALSE, 0)
      [] text = "{completed:true}" -> Obj({"completed"}, "", TRUE, 0)
      [] text = "{title:'a',completed:false}" -> Obj({"title", "completed"}, "a", FALSE, 0)
      [] text = "{createdAt:0}" -> Obj({"createdAt"}, "", FALSE, 0)

----------------------------------------------------------------------------
(* ObjectId <-> its 24 character hex form *)

toHexString(oid) == HexTable[oid]

ValidHex(q) == \E n \in 1 .. Len(HexTable) : HexTable[n] = q

ObjectId(q) == CHOOSE n \in 1 .. Len(HexTable) : HexTable[n] = q

----------------------------------------------------------------------------
(* Records *)

NoDoc == [title |-> "", completed |-> FALSE, createdAt |-> 0]

NoOp == [kind |-> "none", oid |-> 0, doc |-> NoDoc, set |-> JsonParse("")]
FindOp == [NoOp EXCEPT !.kind = "find"]
InsertOp(doc) == [NoOp EXCEPT !.kind = "insert", !.doc = doc]
UpdateOp(oid, data) == [NoOp EXCEPT !.kind = "update", !.oid = oid, !.set = data]
DeleteOp(oid) == [NoOp EXCEPT !.kind = "delete", !.oid = oid]

Idle == [pc |-> "idle", method |-> "", path |-> "", id |-> NoParam,
         at |-> 0, text |-> "", op |-> NoOp]

\* A document as JSON.stringify writes it: the ObjectId in its hex form.
Json(oid, doc) ==
    [_id |-> toHexString(oid), title |-> doc.title,
     completed |-> doc.completed, createdAt |-> doc.createdAt]

NoBody == [t |-> "none", text |-> "", docs |-> {}]
Message(m) == [NoBody EXCEPT !.t = "message", !.text = m]
Error(m) == [NoBody EXCEPT !.t = "error", !.text = m]
Inserted(oid) == [NoBody EXCEPT !.t = "inserted", !.text = toHexString(oid)]
Docs(ds) == [NoBody EXCEPT !.t = "docs", !.docs = ds]
Doc(d) == [NoBody EXCEPT !.t = "doc", !.docs = {d}]
Null == [NoBody EXCEPT !.t = "null"]

\* The request a response answers: what the client sent.
Sent(r) == [method |-> r.method, path |-> r.path, id |-> r.id, text |-> r.text, at |-> r.at]

NoRes == [kind |-> "none", slot |-> 0, req |-> Sent(Idle), code |-> 0, body |-> NoBody]

\* What a run of the handler, from one await to the next, ends in.
Reply(code, body) == [k |-> "reply", code |-> code, body |-> body, op |-> NoOp]
AwaitBody == [k |-> "body", code |-> 0, body |-> NoBody, op |-> NoOp]
AwaitDb(op) == [k |-> "db", code |-> 0, body |-> NoBody, op |-> op]
Throw == [k |-> "throw", code |-> 0, body |-> NoBody, op |-> NoOp]

----------------------------------------------------------------------------
(* db.js *)

\* Mutant of connectDB: db assigned before client.connect() settles.
connectDB_Eager(connected) == Handle

\* connectDB: client.connect() resolved or rejected; the catch only logs.
connectDB(connected) == IF connected THEN Handle ELSE Unset

getDB == db

----------------------------------------------------------------------------
(* server.js: the handler, cut at its awaits *)

\* Mutant of RouteOf: the method test of the PUT route dropped.
RouteOf_AnyMethod(method, path) ==
    CASE method = "GET" /\ path = "/" -> "root"
      [] method = "GET" /\ path = "/todos" -> "list"
      [] method = "POST" /\ path = "/todos" -> "create"
      [] method = "DELETE" /\ path = "/todos" -> "delete"
      [] path = "/todos" -> "update"
      [] OTHER -> "fallback"

\* The (method, pathname) tests of the five routes, in the code's order.
RouteOf(method, path) ==
    CASE method = "GET" /\ path = "/" -> "root"
      [] method = "GET" /\ path = "/todos" -> "list"
      [] method = "POST" /\ path = "/todos" -> "create"
      [] method = "PUT" /\ path = "/todos" -> "update"
      [] method = "DELETE" /\ path = "/todos" -> "delete"
      [] OTHER -> "fallback"

\* Mutant of MissingId: the test written id === undefined, which null passes.
MissingId_Never(q) == FALSE

\* if (!id): searchParams.get gives null without the parameter, "" for ?id=
MissingId(q) == q = NoParam \/ q = ""

\* Lines 51-52: db.collection("todos") on the handle getDB() returns.
CollectionThrows(handle) == handle = Unset

\* From the 'request' event to the first await, or to the response.
Entry(handle, method, path, q) ==
    IF CollectionThrows(handle) THEN Throw
    ELSE LET route == RouteOf(method, path) IN
         CASE route = "root" -> Reply(200, Message(RunningMsg))
           [] route = "list" -> AwaitDb(FindOp)
           [] route = "create" -> AwaitBody
           [] route = "update" ->
                IF MissingId(q) THEN Reply(400, Error(MissingIdMsg)) ELSE AwaitBody
           [] route = "delete" ->
                IF MissingId(q) THEN Reply(400, Error(MissingIdMsg))
                ELSE IF ~ValidHex(q) THEN Reply(400, Error(BsonMsg))
                ELSE AwaitDb(DeleteOp(ObjectId(q)))
           [] OTHER -> Reply(404, Error(NotFoundMsg))

\* Mutant of TitleOf: the || "Untitled" dropped.
TitleOf_Raw(data) == data.title

\* data.title || "Untitled"
TitleOf(data) ==
    IF "title" \in data.keys /\ data.title # "" THEN data.title ELSE Untitled

\* The document POST hands to insertOne.
NewTodo(data, now) ==
    [title |-> TitleOf(data), completed |-> FALSE, createdAt |-> now]

\* { ...data }: the spread of null is the empty object.
Spread(data) == IF data.null THEN JsonParse("{}") ELSE data

\* From the 'end' event of the body stream to the database call.
AfterBody(route, q, text, now) ==
    IF ~ValidJson(text) THEN Reply(400, Error(SyntaxMsg))
    ELSE LET data == JsonParse(text) IN
         IF route = "create"
         THEN IF data.null THEN Reply(400, Error(TypeMsg))
              ELSE AwaitDb(InsertOp(NewTodo(data, now)))
         ELSE IF ~ValidHex(q) THEN Reply(400, Error(BsonMsg))
              ELSE AwaitDb(UpdateOp(ObjectId(q), Spread(data)))

----------------------------------------------------------------------------
(* The collection *)

\* Mutant of ApplySet: the update document without $set, a replacement.
ApplySet_Replace(doc, data) ==
    [title |-> data.title, completed |-> data.completed, createdAt |-> data.createdAt]

\* $set: the fields the update names are overwritten, the others kept.
ApplySet(doc, data) ==
    [title |-> IF "title" \in data.keys THEN data.title ELSE doc.title,
     completed |-> IF "completed" \in data.keys THEN data.completed ELSE doc.completed,
     createdAt |-> IF "createdAt" \in data.keys THEN data.createdAt ELSE doc.createdAt]

insertOne(coll, oid, doc) == [i \in DOMAIN coll \cup {oid} |-> IF i = oid THEN doc ELSE coll[i]]

findOneAndUpdate(coll, oid, data) ==
    [i \in DOMAIN coll |-> IF i = oid THEN ApplySet(coll[i], data) ELSE coll[i]]

\* Mutant of deleteOne: the filter dropped, every document removed.
deleteOne_All(coll, oid) == [i \in {} |-> NoDoc]

deleteOne(coll, oid) == [i \in DOMAIN coll \ {oid} |-> coll[i]]

\* Mutant of find: a filter left in the query, completed items not listed.
find_Pending(coll) == {Json(i, coll[i]) : i \in {j \in DOMAIN coll : ~coll[j].completed}}

find(coll) == {Json(i, coll[i]) : i \in DOMAIN coll}

\* The collection after a call the database accepted.
Applied(coll, op, fresh) ==
    CASE op.kind = "insert" -> insertOne(coll, fresh, op.doc)
      [] op.kind = "update" -> findOneAndUpdate(coll, op.oid, op.set)
      [] op.kind = "delete" -> deleteOne(coll, op.oid)
      [] OTHER -> coll

\* The handler after a call the database accepted; coll is the collection after it.
Resolved(op, coll, fresh) ==
    CASE op.kind = "find" -> Reply(200, Docs(find(coll)))
      [] op.kind = "insert" -> Reply(201, Inserted(fresh))
      [] op.kind = "update" ->
           IF op.oid \in DOMAIN coll
           THEN Reply(200, Doc(Json(op.oid, coll[op.oid])))
           ELSE Reply(200, Null)
      [] op.kind = "delete" -> Reply(200, Message(DeletedMsg))

\* Mutant of Rejected: the database call moved out of the try.
Rejected_Uncaught(op) == Throw

\* The handler after a call the database rejected: the catch of the three
\* write routes, and no catch around GET /todos.
Rejected(op) == IF op.kind = "find" THEN Throw ELSE Reply(400, Error(DbMsg))

----------------------------------------------------------------------------
(* The state machine *)

Init ==
    /\ proc = "connecting"
    /\ client = "new"
    /\ strict \in BOOLEAN
    /\ db = Unset
    /\ todos = [i \in {} |-> NoDoc]
    /\ nextId = 1
    /\ clock = 1
    /\ reqs = [s \in Slots |-> Idle]
    /\ res = NoRes

\* Line 17: await connectDB() returns, whatever client.connect() did, and
\* lines 164-166 start the listener.
Startup(connected) ==
    /\ proc = "connecting"
    /\ client' = IF connected THEN "connected" ELSE "failed"
    /\ db' = connectDB(connected)
    /\ proc' = "listening"
    /\ UNCHANGED <<strict, todos, nextId, clock, reqs, res>>

ConnectOk == Startup(TRUE)

ConnectFail == Startup(FALSE)

\* The handler of slot s, run for request r, ended in out.
Step(s, r, out) ==
    /\ reqs' = [reqs EXCEPT ![s] =
                  CASE out.k = "body" -> [r EXCEPT !.pc = "body"]
                    [] out.k = "db" -> [r EXCEPT !.pc = "db", !.op = out.op]
                    [] OTHER -> Idle]
    /\ res' = CASE out.k = "reply" ->
                     [kind |-> "response", slot |-> s, req |-> Sent(r),
                      code |-> out.code, body |-> out.body]
                [] out.k = "throw" ->
                     [kind |-> "unhandled", slot |-> s, req |-> Sent(r),
                      code |-> 0, body |-> NoBody]
                [] OTHER -> res
    /\ proc' = IF out.k = "throw" /\ strict THEN "crashed" ELSE proc

Creating == {t \in Slots : reqs[t].pc # "idle"
                           /\ RouteOf(reqs[t].method, reqs[t].path) = "create"}

\* The 'request' event: the handler runs to its first await.
Request(s, MP, Q) ==
    /\ proc = "listening"
    /\ res = NoRes
    /\ reqs[s] = Idle
    /\ \A t \in Slots : t < s => reqs[t] # Idle
    /\ \E mp \in MP :
         LET m == mp[1]
             p == mp[2]
         IN  \E q \in IF RouteOf(m, p) \in {"update", "delete"} THEN Q ELSE {NoParam} :
                /\ RouteOf(m, p) = "create" => nextId + Cardinality(Creating) <= MaxIds
                /\ Step(s, [Idle EXCEPT !.pc = "run", !.method = m, !.path = p,
                                        !.id = q, !.text = Unread,
                                        !.at = IF RouteOf(m, p) = "create" THEN clock ELSE 0],
                        Entry(getDB, m, p, q))
    /\ UNCHANGED <<client, strict, db, todos, nextId, clock>>

\* Mutant of Resumes: a handler that waits for the other requests to finish.
Resumes_Serial(s, at) == reqs[s].pc = at /\ \A t \in Slots \ {s} : reqs[t] = Idle

\* The handler of slot s, suspended at an await, resumes when what it awaits
\* settles, whatever the other requests are doing.
Resumes(s, at) == reqs[s].pc = at

\* The 'end' event of the body stream: parseBody settles and the handler
\* runs to its database call.
BodyEnd(s, PT, UT) ==
    /\ proc = "listening"
    /\ res = NoRes
    /\ Resumes(s, "body")
    /\ \E text \in IF RouteOf(reqs[s].method, reqs[s].path) = "create" THEN PT ELSE UT :
         Step(s, [reqs[s] EXCEPT !.text = text],
              AfterBody(RouteOf(reqs[s].method, reqs[s].path), reqs[s].id, text, clock))
    /\ UNCHANGED <<client, strict, db, todos, nextId, clock>>

\* The database applies the call and the handler resumes.
DbAccept(s) ==
    /\ proc = "listening"
    /\ res = NoRes
    /\ Resumes(s, "db")
    /\ todos' = Applied(todos, reqs[s].op, nextId)
    /\ nextId' = IF reqs[s].op.kind = "insert" THEN nextId + 1 ELSE nextId
    /\ Step(s, reqs[s], Resolved(reqs[s].op, todos', nextId))
    /\ UNCHANGED <<client, strict, db, clock>>

\* The database rejects the call and the handler resumes.
DbReject(s) ==
    /\ proc = "listening"
    /\ res = NoRes
    /\ Resumes(s, "db")
    /\ Step(s, reqs[s], Rejected(reqs[s].op))
    /\ UNCHANGED <<client, strict, db, todos, nextId, clock>>

DbReturn(s) == DbAccept(s) \/ DbReject(s)

\* What the handler wrote has left the process.
Deliver ==
    /\ res # NoRes
    /\ res' = NoRes
    /\ UNCHANGED <<proc, client, strict, db, todos, nextId, clock, reqs>>

Tick ==
    /\ proc = "listening"
    /\ res = NoRes
    /\ clock < MaxClock
    /\ clock' = clock + 1
    /\ UNCHANGED <<proc, client, strict, db, todos, nextId, reqs, res>>

Next ==
    \/ ConnectOk
    \/ ConnectFail
    \/ \E s \in Slots : Request(s, Targets, IdParams)
    \/ \E s \in Slots : BodyEnd(s, PostTexts, PutTexts)
    \/ \E s \in Slots : DbAccept(s)
    \/ \E s \in Slots : DbReject(s)
    \/ Deliver
    \/ Tick

Spec == Init /\ [][Next]_vars

\* The same machine on fewer inputs, with the event loop's fairness: what a
\* request of slot 1 awaits always settles, and a settled await is resumed.
\* Nothing is assumed of what slot 2 awaits: its body stream, or its database
\* call, may hang for ever.
LiveTargets == {<<"GET", "/todos">>, <<"POST", "/todos">>, <<"PUT", "/todos">>}
LiveIds == {HexTable[1]}
LivePostTexts == {"{}"}
LivePutTexts == {"{", "{completed:true}"}

LiveNext ==
    \/ ConnectOk
    \/ ConnectFail
    \/ \E s \in Slots : Request(s, LiveTargets, LiveIds)
    \/ \E s \in Slots : BodyEnd(s, LivePostTexts, LivePutTexts)
    \/ \E s \in Slots : DbAccept(s)
    \/ \E s \in Slots : DbReject(s)
    \/ Deliver
    \/ Tick

FairSpec ==
    /\ Init
    /\ [][LiveNext]_vars
    /\ SF_vars(BodyEnd(1, LivePostTexts, LivePutTexts))
    /\ SF_vars(DbReturn(1))
    /\ WF_vars(Deliver)

----------------------------------------------------------------------------
(* Vocabulary of the properties *)

\* This step ends a request: its handler wrote a response or threw.
Ends == res = NoRes /\ res' # NoRes

\* The request's (method, pathname) pair, read off the request itself.
Is(r, method, path) == r.method = method /\ r.path = path
List(r) == Is(r, "GET", "/todos")
Create(r) == Is(r, "POST", "/todos")
Update(r) == Is(r, "PUT", "/todos")
Delete(r) == Is(r, "DELETE", "/todos")
Undefined(r) == ~(Is(r, "GET", "/") \/ List(r) \/ Create(r) \/ Update(r) \/ Delete(r))

\* The request carries no id: no ?id= at all, or an empty one.
NoId(r) == r.id = NoParam \/ r.id = ""

Replied(r, code, body) == r.kind = "response" /\ r.code = code /\ r.body = body

\* The stored items a query parameter names.
Named(coll, q) == {i \in DOMAIN coll : toHexString(i) = q}

Same(coll1, coll2, ids) == \A i \in ids : i \in DOMAIN coll1 /\ i \in DOMAIN coll2 /\ coll1[i] = coll2[i]

----------------------------------------------------------------------------
(* C1 *)

\* C1, as stated: every request to an undefined (method, pathname) pair ends
\* in 404 {"error": "Route not found"} with the collection unchanged, whatever
\* the startup connectDB() did.
C1_Stated ==
    [][(Ends /\ Undefined(res'.req))
         => (Replied(res', 404, Error(NotFoundMsg)) /\ todos' = todos)]_vars

\* C1, amended: when the startup connectDB() set the handle, every request to
\* an undefined (method, pathname) pair ends in 404 {"error": "Route not found"}
\* with the collection unchanged.
C1_NotFound ==
    [][(Ends /\ Undefined(res'.req) /\ getDB # Unset)
         => (Replied(res', 404, Error(NotFoundMsg)) /\ todos' = todos)]_vars

C1_Witness ==
    /\ Replied(res, 404, Error(NotFoundMsg))
    /\ res.req.method = "PATCH" /\ res.req.path = "/todos"
    /\ DOMAIN todos # {}

----------------------------------------------------------------------------
(* C2 *)

EmptyBody(r) == r.text = "" \/ r.text = "{}"

\* The step inserted exactly one item, and it is the default item.
InsertedDefault(at) ==
    /\ DOMAIN todos \subseteq DOMAIN todos'
    /\ Cardinality(DOMAIN todos' \ DOMAIN todos) = 1
    /\ Same(todos, todos', DOMAIN todos)
    /\ \A i \in DOMAIN todos' \ DOMAIN todos :
         /\ todos'[i].title = "Untitled"
         /\ todos'[i].completed = FALSE
         /\ todos'[i].createdAt >= at

\* C2, as stated: every POST /todos with an empty or {} body inserts exactly
\* one item with title "Untitled", completed false and createdAt at or after
\* the arrival, and is answered 201.
C2_Stated ==
    [][(Ends /\ Create(res'.req) /\ EmptyBody(res'.req))
         => (res'.kind = "response" /\ res'.code = 201 /\ InsertedDefault(res'.req.at))]_vars

\* C2, amended: every POST /todos with an empty or {} body whose insertOne
\* call the database accepts inserts exactly one item with title "Untitled",
\* completed false and createdAt at or after the arrival, and is answered 201.
C2_Defaults ==
    [][\A s \in Slots :
         (DbAccept(s) /\ Create(reqs[s]) /\ EmptyBody(reqs[s]))
           => (res'.kind = "response" /\ res'.slot = s /\ res'.code = 201
               /\ InsertedDefault(reqs[s].at))]_vars

C2_Witness ==
    /\ res.kind = "response" /\ res.code = 201
    /\ res.req.text = "{}"
    /\ ObjectId(res.body.text) \in DOMAIN todos
    /\ todos[ObjectId(res.body.text)].createdAt > res.req.at
    /\ Cardinality(DOMAIN todos) = 2

----------------------------------------------------------------------------
(* C3 *)

\* The step of a PUT that names no stored item leaves the identifiers alone.
NoUpsert(r) ==
    (ValidHex(r.id) /\ Named(todos, r.id) = {}) => DOMAIN todos' = DOMAIN todos

\* C3, as stated: PUT /todos without id is answered 400 "Missing ID" with the
\* collection unchanged, and PUT with an id that matches nothing creates nothing.
C3_Stated ==
    [][(Ends /\ Update(res'.req))
         => /\ NoId(res'.req)
                 => (Replied(res', 400, Error("Missing ID")) /\ todos' = todos)
            /\ NoUpsert(res'.req)]_vars

\* C3, amended: when the handle is set, PUT /todos without id is answered 400
\* "Missing ID" with the collection unchanged; a PUT with a well-formed id that
\* matches nothing never creates an item.
C3_MissingId ==
    [][(Ends /\ Update(res'.req))
         => /\ (NoId(res'.req) /\ getDB # Unset)
                 => (Replied(res', 400, Error("Missing ID")) /\ todos' = todos)
            /\ NoUpsert(res'.req)]_vars

C3_Witness ==
    /\ Replied(res, 400, Error("Missing ID"))
    /\ res.req.method = "PUT"
    /\ DOMAIN todos # {}

----------------------------------------------------------------------------
(* C4 *)

\* Exactly the items q names are gone, and the others are as they were.
RemovedOnly(q) ==
    /\ DOMAIN todos' = DOMAIN todos \ Named(todos, q)
    /\ Same(todos, todos', DOMAIN todos')

\* C4, as stated: for every id, DELETE /todos?id=<id> removes exactly the item
\* with that id, leaves the others untouched, and is answered 200
\* {"message": "Todo deleted"} also when nothing matches.
C4_Stated ==
    [][(Ends /\ Delete(res'.req) /\ ~NoId(res'.req))
         => (Replied(res', 200, Message("Todo deleted")) /\ RemovedOnly(res'.req.id))]_vars

\* C4, amended: for every well-formed id, a DELETE /todos?id=<id> whose
\* deleteOne call the database accepts removes exactly the item with that id,
\* leaves the others untouched, and is answered 200 {"message": "Todo deleted"}
\* also when nothing matches.
C4_DeleteFrame ==
    [][\A s \in Slots :
         (DbAccept(s) /\ Delete(reqs[s]))
           => (Replied(res', 200, Message("Todo deleted")) /\ res'.slot = s
               /\ RemovedOnly(reqs[s].id))]_vars

C4_Witness ==
    /\ Replied(res, 200, Message("Todo deleted"))
    /\ nextId = 3
    /\ Named(todos, res.req.id) = {}
    /\ Cardinality(DOMAIN todos) = 1

----------------------------------------------------------------------------
(* C5 *)

\* The title a body asks for: the member "title" of the parsed object.
Asked(text) == JsonParse(text)

\* C5, as stated: POST /todos {"title": t} answered 201 with id i stores t
\* under i; PUT /todos?id=i {"completed": true} is answered 200 with the item,
\* completed true and the title unchanged; GET /todos then lists the item as
\* it is stored.
C5_Stated ==
    [][Ends =>
         /\ (Create(res'.req) /\ res'.kind = "response" /\ res'.code = 201
               /\ "title" \in Asked(res'.req.text).keys)
              => /\ ObjectId(res'.body.text) \in DOMAIN todos'
                 /\ todos'[ObjectId(res'.body.text)].title = Asked(res'.req.text).title
         /\ (Update(res'.req) /\ res'.req.text = "{completed:true}"
               /\ Named(todos, res'.req.id) # {})
              => /\ res'.kind = "response" /\ res'.code = 200 /\ res'.body.t = "doc"
                 /\ \A d \in res'.body.docs :
                      /\ d._id = res'.req.id
                      /\ d.completed = TRUE
                      /\ d.title = todos[ObjectId(res'.req.id)].title
         /\ List(res'.req)
              => \A i \in DOMAIN todos :
                    /\ res'.kind = "response" /\ res'.code = 200 /\ res'.body.t = "docs"
                    /\ \E d \in res'.body.docs :
                          d._id = toHexString(i) /\ d.completed = todos[i].completed]_vars

\* C5, amended: a POST /todos answered 201 with id i stores under i the
\* title of its body when that is a non-empty string and "Untitled" otherwise;
\* a PUT /todos?id=i {"completed": true} the database accepts is answered 200
\* with the item as stored after it, completed true and title and createdAt
\* unchanged; a GET /todos the database accepts lists every stored item as it
\* is stored.
C5_RoundTrip ==
    [][\A s \in Slots : DbAccept(s) =>
         /\ Create(reqs[s])
              => /\ res'.kind = "response" /\ res'.code = 201
                 /\ ValidHex(res'.body.text)
                 /\ ObjectId(res'.body.text) \in DOMAIN todos' \ DOMAIN todos
                 /\ todos'[ObjectId(res'.body.text)].title =
                      IF "title" \in Asked(reqs[s].text).keys /\ Asked(reqs[s].text).title # ""
                      THEN Asked(reqs[s].text).title ELSE "Untitled"
         /\ (Update(reqs[s]) /\ reqs[s].text = "{completed:true}"
               /\ Named(todos, reqs[s].id) # {})
              => /\ res'.kind = "response" /\ res'.code = 200 /\ res'.body.t = "doc"
                 /\ \A d \in res'.body.docs :
                      /\ d._id = reqs[s].id
                      /\ d.completed = TRUE
                      /\ d.title = todos[ObjectId(d._id)].title
                      /\ d.createdAt = todos[ObjectId(d._id)].createdAt
                      /\ d = Json(ObjectId(d._id), todos'[ObjectId(d._id)])
                 /\ Cardinality(res'.body.docs) = 1
         /\ List(reqs[s])
              => /\ res'.kind = "response" /\ res'.code = 200 /\ res'.body.t = "docs"
                 /\ Cardinality(res'.body.docs) = Cardinality(DOMAIN todos)
                 /\ \A i \in DOMAIN todos :
                      \E d \in res'.body.docs :
                         /\ d._id = toHexString(i)
                         /\ d.title = todos[i].title
                         /\ d.completed = todos[i].completed
                         /\ d.createdAt = todos[i].createdAt]_vars

\* A GET /todos lists an item that a POST titled "a" and a PUT completed.
C5_Witness ==
    /\ res.kind = "response" /\ res.code = 200 /\ res.body.t = "docs"
    /\ \E d \in res.body.docs : d.title = "a" /\ d.completed = TRUE /\ d.createdAt > 0

----------------------------------------------------------------------------
(* C6 *)

\* C6, as stated: createdAt is immutable: no step changes the createdAt of a
\* stored item, and an inserted item gets the clock's time.
C6_Stated ==
    [][/\ \A i \in DOMAIN todos \cap DOMAIN todos' :
            todos'[i].createdAt = todos[i].createdAt
       /\ \A i \in DOMAIN todos' \ DOMAIN todos :
            i \in ObjectIds /\ todos'[i].createdAt \in 1 .. clock]_vars

----------------------------------------------------------------------------
(* C7 *)

\* The message of the failure a write request runs into first, the database
\* rejecting its call being the last thing that can fail.
FailureOf(r) ==
    CASE (Update(r) \/ Delete(r)) /\ NoId(r) -> "Missing ID"
      [] Delete(r) /\ ~ValidHex(r.id) -> BsonMsg
      [] (Create(r) \/ Update(r)) /\ r.text = "{" -> SyntaxMsg
      [] Create(r) /\ r.text = "null" -> TypeMsg
      [] Update(r) /\ ~ValidHex(r.id) -> BsonMsg
      [] OTHER -> DbMsg

Write(r) == Create(r) \/ Update(r) \/ Delete(r)

Success(r) == r.kind = "response" /\ r.code \in {200, 201}

\* C7, as stated: a POST, PUT or DELETE /todos that fails is answered 400
\* {"error": <the failure's message>}, and the collection is as before it.
C7_Stated ==
    [][/\ (Ends /\ Write(res'.req) /\ ~Success(res'))
            => (Replied(res', 400, Error(FailureOf(res'.req))) /\ todos' = todos)
       /\ todos' # todos => (Ends /\ Write(res'.req) /\ Success(res'))]_vars

\* C7, amended: when the handle is set, a POST, PUT or DELETE /todos that
\* fails (missing id, malformed id, malformed or null body, a rejected
\* database call) is answered 400 {"error": <the failure's message>}; the
\* collection changes only in the step that ends a write request in success.
C7_Failures ==
    [][/\ (Ends /\ Write(res'.req) /\ ~Success(res') /\ getDB # Unset)
            => (Replied(res', 400, Error(FailureOf(res'.req))) /\ todos' = todos)
       /\ todos' # todos => (Ends /\ Write(res'.req) /\ Success(res'))]_vars

\* A PUT on a stored item that the database rejected.
C7_Witness ==
    /\ Replied(res, 400, Error(DbMsg))
    /\ res.req.method = "PUT"
    /\ Named(todos, res.req.id) # {}
    /\ res.req.text = "{completed:true}"
    /\ \A i \in DOMAIN todos : todos[i].completed = FALSE

----------------------------------------------------------------------------
(* C8 *)

\* C8: when client.connect() fails, connectDB() still returns, the handle
\* stays unset, getDB() returns the unset value and the listener starts; when
\* it succeeds the handle is set, and from then on getDB() returns that handle.
C8_Connect ==
    /\ [](client = "failed" => (proc # "connecting" /\ getDB = Unset))
    /\ [](client = "connected" => (proc # "connecting" /\ getDB = "todo_api"))
    /\ [][proc = "connecting" => proc' \in {"connecting", "listening"}]_vars
    /\ [][proc # "connecting" => getDB' = getDB]_vars

\* The listener took a request after a failed connect.
C8_Witness ==
    /\ client = "failed"
    /\ getDB = Unset
    /\ res.kind = "unhandled"
    /\ proc = "listening"

----------------------------------------------------------------------------
(* C9 *)

\* The item after an update: what the body names has the body's value, the
\* rest is as it was stored when the update was applied.
Merged(old, new, b) ==
    /\ new.title = IF "title" \in b.keys THEN b.title ELSE old.title
    /\ new.completed = IF "completed" \in b.keys THEN b.completed ELSE old.completed
    /\ new.createdAt = IF "createdAt" \in b.keys THEN b.createdAt ELSE old.createdAt

\* C9: each PUT is applied to the item as one step, on the item as stored at
\* that moment: the fields its body names get its values (so the update
\* applied last wins them), every other field keeps what the earlier update
\* left there, no other item changes, and the answer is the item after it.
C9_LastWriteWins ==
    [][\A s \in Slots :
         (DbAccept(s) /\ Update(reqs[s]) /\ ValidJson(reqs[s].text))
           => LET i == ObjectId(reqs[s].id) IN
              /\ DOMAIN todos' = DOMAIN todos
              /\ Same(todos, todos', DOMAIN todos \ {i})
              /\ i \in DOMAIN todos
                   => /\ Merged(todos[i], todos'[i], Asked(reqs[s].text))
                      /\ Replied(res', 200, Doc(Json(i, todos'[i])))]_vars

\* Two PUTs to one item were in flight together; the first has been applied
\* and answered, the second is still at the database.
C9_Witness ==
    /\ res.kind = "response" /\ res.code = 200
    /\ res.req.method = "PUT" /\ res.req.text = "{completed:true}"
    /\ \E t \in Slots :
         /\ reqs[t].pc = "db"
         /\ reqs[t].method = "PUT"
         /\ reqs[t].id = res.req.id
         /\ reqs[t].text = "{title:'a',completed:false}"
    /\ Named(todos, res.req.id) # {}
    /\ \A i \in Named(todos, res.req.id) : todos[i].completed = TRUE /\ todos[i].title = "Untitled"

----------------------------------------------------------------------------
(* C10 *)

InFlight(s) == reqs[s].pc # "idle"

====
